---- MODULE Spec2Model ----
(***************************************************************************)
(* EventBuffer of fire_geoprojector (src/utils/buffer.py): a fixed-size    *)
(* grid of fire detections, indexed by time frame and by projected cell,   *)
(* that re-centers itself when an event projects outside the grid.         *)
(*                                                                         *)
(* Arithmetic.  The program computes in binary64; the model computes the   *)
(* same expressions exactly, on integers:                                  *)
(*   - a coordinate is an integer number of 1e-4 degrees;                  *)
(*   - a length is an integer number of 4 mm, so that 111.320 km per       *)
(*     degree is 2783 per coordinate unit and a 0.2 km cell is 50000;      *)
(*   - a time is an integer number of seconds, UNIX time where the program *)
(*     calls timestamp();                                                  *)
(*   - round() and np.round() round half to even (RoundHalfEven);          *)
(*   - a halving whose exact result is not a coordinate is rounded half to *)
(*     even, as IEEE division rounds to the nearest representable value;   *)
(*   - the float32 tensor keeps 24 significant bits (Float32);             *)
(*   - NaN is one extra value that every arithmetic operation propagates.  *)
(***************************************************************************)
EXTENDS Integers, FiniteSets, Sequences, TLC

\* ------------------------------------------------------------------ bounds
\* Frames retained (the program's default is 240).
MaxCapacity == 2
\* add_event calls made by the caller in one run.
MaxCalls == 2
\* Recenters one call may perform before the model stops following it.
MaxShifts == 6

\* ------------------------------------------------------- program constants
RowSize == 10
StepMinutes == 1
KmPerDegLat == 2783
CellSizeKm == 50000

\* The float that is not a number.
NaN == -(2^30)

\* The ignition point handed to the constructor: (38.01, 23.96) at a UNIX
\* time of 1700000000 s.
IgnitionPoint == <<380100, 239600, 1700000000>>

\* The inputs of add_event the caller draws from.
EventLats == {380100, 380104, 380268, 380500, NaN}
EventLons == {239600, 239486, NaN}
EventOffsets == {0 - 30, 0, 30, 60 * StepMinutes, MaxCapacity * 60 * StepMinutes}

Frames == 0 .. (MaxCapacity - 1)
Channels == 0 .. 1
Rows == 0 .. (RowSize - 1)
Cells == Rows \X Rows

VARIABLES
    lat0, lon0, start_time, km_per_deg_lon, tensor,   \* the buffer's fields
    pc,                                               \* where the call chain stands
    ev,                                               \* arguments of the running add_event
    km_per_deg_lon_old, new_lat0, new_lon0, new_tensor, \* locals of shift_grid
    calls, shifts, attempts, result,                  \* what the running call has done
    call, prev,                                       \* the last two calls as made
    recorded,                                         \* events written so far
    layout                                            \* origin the tensor is laid out under

vars == <<lat0, lon0, start_time, km_per_deg_lon, tensor, pc, ev,
          km_per_deg_lon_old, new_lat0, new_lon0, new_tensor,
          calls, shifts, attempts, result, call, prev, recorded, layout>>

\* ------------------------------------------------------------- arithmetic
IsNaN(x) == x = NaN

\* round(n / d) for d > 0, ties to the even integer.
RoundHalfEven(n, d) ==
    LET q == n \div d
        r == n % d
    IN  IF 2 * r < d THEN q
        ELSE IF 2 * r > d THEN q + 1
        ELSE IF q % 2 = 0 THEN q ELSE q + 1


\* (a + b) / 2 on the coordinate grid.
Half(x) == RoundHalfEven(x, 2)

\* Spacing of float32 values around x >= 0: 24 significant bits.
RECURSIVE Ulp32(_)
Ulp32(x) == IF x < 2^24 THEN 1 ELSE 2 * Ulp32(x \div 2)

\* The value a float32 array element holds after x is stored in it.
Float32(x) == Ulp32(x) * RoundHalfEven(x, Ulp32(x))

\* 111.320 * cos(radians(lat)) per coordinate unit.  The cosine is expanded to
\* first order about 38.01 degrees: 2783 * cos(38.01) = 2192.735 and
\* 2783 * sin(38.01) * (pi / 180) * 1e-4 = 0.002991 per coordinate unit; over
\* the latitudes of the model the neglected term is below 1e-3.
KmPerDegLon(lat) == RoundHalfEven(219273485 - 299 * (lat - 380100), 100000)

ZeroTensor == [f \in Frames |-> [ch \in Channels |-> [r \in Rows |-> [c \in Rows |-> 0]]]]

center == RowSize \div 2

\* The cell of (lat, lon) in a grid centred on (olat, olon) whose longitude
\* scale is klon.
CellAt(olat, olon, klon, lat, lon) ==
    LET row_offset == RoundHalfEven((lat - olat) * KmPerDegLat, CellSizeKm)
        col_offset == RoundHalfEven((lon - olon) * klon, CellSizeKm)
    IN  <<center - row_offset, center + col_offset>>

CoordToGrid(lat, lon) == CellAt(lat0, lon0, km_per_deg_lon, lat, lon)

\* round() of a NaN raises ValueError.
CoordRaises(lat, lon) == IsNaN(lat) \/ IsNaN(lon)

InGrid(cell) == cell[1] \in Rows /\ cell[2] \in Rows

\* get_frame_index with int(a / b) in place of int(a // b): towards zero.
GetFrameIndexTruncated(timestamp) ==
    IF timestamp >= start_time
    THEN (timestamp - start_time) \div (StepMinutes * 60)
    ELSE 0 - ((start_time - timestamp) \div (StepMinutes * 60))

\* get_frame_index with round(a / b) in place of a // b.
GetFrameIndexRounded(timestamp) ==
    RoundHalfEven(timestamp - start_time, StepMinutes * 60)

GetFrameIndex(timestamp) == (timestamp - start_time) \div (StepMinutes * 60)

FrameInRange(frame_idx) == 0 <= frame_idx /\ frame_idx < MaxCapacity

FrameIsEmpty(t, f) == \A cell \in Cells : t[f][1][cell[1]][cell[2]] = 0

\* Where shift_grid sends the old cell (row, col): its centre is taken back to
\* a coordinate under the old origin and the old longitude scale, and that
\* coordinate is projected under the new origin and the new scale.
\*   lat = lat0 + (center - row) * cs / klat
\*   new_row = center - round((lat - new_lat0) * klat / cs)
\*   lon = lon0 + (col - center) * cs / klon_old
\*   new_col = center + round((lon - new_lon0) * klon / cs)
Remap(olat, olon, klon_old, nlat, nlon, klon, cell) ==
    LET dlat == (center - cell[1]) * CellSizeKm - (nlat - olat) * KmPerDegLat
        dlon == (cell[2] - center) * CellSizeKm * klon
                    - (nlon - olon) * klon_old * klon
    IN  <<center - RoundHalfEven(dlat, CellSizeKm),
          center + RoundHalfEven(dlon, klon_old * CellSizeKm)>>

\* What the tensor holds at one cell, over all frames and channels.
Column(t, cell) == [f \in Frames |-> [ch \in Channels |-> t[f][ch][cell[1]][cell[2]]]]

ZeroColumn == [f \in Frames |-> [ch \in Channels |-> 0]]

\* new_rows, new_cols: the image of every old cell.
Image(olat, olon, klon_old, nlat, nlon, klon) ==
    [s \in Cells |-> Remap(olat, olon, klon_old, nlat, nlon, klon, s)]

\* The old cells that hold something in some frame.
Occupied(t) == {s \in Cells : Column(t, s) # ZeroColumn}

\* The new cells some occupied old cell is copied to (valid_mask keeps the
\* images inside the grid).
Hit(img, full) == {img[s] : s \in full} \cap Cells

\* What the assignment can leave at the new cell tgt: the content of any old
\* cell whose image is tgt.
Candidates(t, img, full, tgt) ==
    {Column(t, s) : s \in {x \in full : img[x] = tgt}}
        \cup (IF \E s \in Cells \ full : img[s] = tgt THEN {ZeroColumn} ELSE {})

\* One content for every new cell in hit.
Picks(t, img, full, hit) ==
    {p \in [hit -> UNION {Candidates(t, img, full, tgt) : tgt \in hit}] :
        \A tgt \in hit : p[tgt] \in Candidates(t, img, full, tgt)}

\* np.zeros_like(self.tensor) with the picked contents written in.
Build(p, hit) ==
    [f \in Frames |-> [ch \in Channels |-> [r \in Rows |-> [c \in Rows |->
        IF <<r, c>> \in hit THEN p[<<r, c>>][f][ch] ELSE 0]]]]

\* The tensors new_tensor[:, :, tgt_rows, tgt_cols] = tensor[:, :, old_rows,
\* old_cols] can produce, img being the image of the old cells and full the
\* occupied ones.  A target no old cell maps to stays zero; a target several
\* old cells map to takes the value of one of them, and NumPy leaves open
\* which.  (Only the occupied old cells are followed one by one: every other
\* old cell copies zeros.)
Assigned(t, img, full) ==
    UNION {{Build(p, hit) : p \in Picks(t, img, full, hit)} :
              hit \in {Hit(img, full)}}

Remapped(t, olat, olon, klon_old, nlat, nlon, klon) ==
    UNION {Assigned(t, img, full) :
              img \in {Image(olat, olon, klon_old, nlat, nlon, klon)},
              full \in {Occupied(t)}}

\* ------------------------------------------------------------------ state
Init ==
    /\ lat0 = IgnitionPoint[1]
    /\ lon0 = IgnitionPoint[2]
    /\ start_time = IgnitionPoint[3]
    /\ km_per_deg_lon = KmPerDegLon(IgnitionPoint[1])
    /\ tensor = ZeroTensor
    /\ pc = "idle"
    /\ ev = [lat |-> 0, lon |-> 0, ts |-> 0]
    /\ km_per_deg_lon_old = 0
    /\ new_lat0 = 0
    /\ new_lon0 = 0
    /\ new_tensor = ZeroTensor
    /\ calls = 0
    /\ shifts = 0
    /\ attempts = 0
    /\ result = "none"
    /\ call = [lat |-> 0, lon |-> 0, ts |-> 0, lat0 |-> 0, lon0 |-> 0,
               km |-> 0, ofg |-> FALSE, empty |-> FALSE]
    /\ prev = [lat |-> 0, lon |-> 0, ts |-> 0, lat0 |-> 0, lon0 |-> 0,
               km |-> 0, ofg |-> FALSE, empty |-> FALSE]
    /\ recorded = {}
    /\ layout = <<IgnitionPoint[1], IgnitionPoint[2]>>

\* The body of add_event(lat, lon, timestamp): drop an event outside the
\* frames, raise on a NaN, write an event inside the grid, hand any other to
\* handle_ofg_events.
Insert(lat, lon, timestamp) ==
    LET frame_idx == GetFrameIndex(timestamp)
        cell == CoordToGrid(lat, lon)
    IN  IF ~FrameInRange(frame_idx)
        THEN /\ pc' = "idle"
             /\ result' = "dropped"
             /\ UNCHANGED <<tensor, recorded>>
        ELSE IF CoordRaises(lat, lon)
        THEN /\ pc' = "raised"
             /\ result' = "ValueError"
             /\ UNCHANGED <<tensor, recorded>>
        ELSE IF InGrid(cell)
        THEN /\ tensor' = [tensor EXCEPT
                    ![frame_idx][1][cell[1]][cell[2]] = 1,
                    ![frame_idx][0][cell[1]][cell[2]] = Float32(timestamp)]
             /\ pc' = "idle"
             /\ result' = "written"
             /\ recorded' = recorded \cup
                    {[frame |-> frame_idx, lat |-> lat, lon |-> lon]}
        ELSE /\ pc' = "ofg"
             /\ result' = "pending"
             /\ UNCHANGED <<tensor, recorded>>

\* The caller's buffer.add_event(lat, lon, ts).
AddEvent(lat, lon, offset) ==
    LET timestamp == IgnitionPoint[3] + offset
        frame_idx == GetFrameIndex(timestamp)
    IN  /\ pc = "idle"
        /\ calls < MaxCalls
        /\ calls' = calls + 1
        /\ ev' = [lat |-> lat, lon |-> lon, ts |-> timestamp]
        /\ prev' = call
        /\ call' = [lat |-> lat, lon |-> lon, ts |-> timestamp,
                    lat0 |-> lat0, lon0 |-> lon0, km |-> km_per_deg_lon,
                    ofg |-> /\ FrameInRange(frame_idx)
                            /\ ~CoordRaises(lat, lon)
                            /\ ~InGrid(CoordToGrid(lat, lon)),
                    empty |-> /\ FrameInRange(frame_idx)
                              /\ FrameIsEmpty(tensor, frame_idx)]
        /\ shifts' = 0
        /\ attempts' = 1
        /\ Insert(lat, lon, timestamp)
        /\ UNCHANGED <<lat0, lon0, start_time, km_per_deg_lon,
                       km_per_deg_lon_old, new_lat0, new_lon0, new_tensor, layout>>

\* handle_ofg_events taking the event itself as the new origin.
HandleOfgEventsOnEvent ==
    /\ pc = "ofg"
    /\ shifts < MaxShifts
    /\ new_lat0' = ev.lat
    /\ new_lon0' = ev.lon
    /\ km_per_deg_lon_old' = km_per_deg_lon
    /\ km_per_deg_lon' = KmPerDegLon(new_lat0')
    /\ shifts' = shifts + 1
    /\ pc' = "remap"
    /\ UNCHANGED <<lat0, lon0, start_time, tensor, ev, new_tensor, calls,
                   attempts, result, call, prev, recorded, layout>>

\* handle_ofg_events averaging the origin with itself: the origin stays.
HandleOfgEventsOnOrigin ==
    /\ pc = "ofg"
    /\ shifts < MaxShifts
    /\ new_lat0' = Half(lat0 + lat0)
    /\ new_lon0' = Half(lon0 + lon0)
    /\ km_per_deg_lon_old' = km_per_deg_lon
    /\ km_per_deg_lon' = KmPerDegLon(new_lat0')
    /\ shifts' = shifts + 1
    /\ pc' = "remap"
    /\ UNCHANGED <<lat0, lon0, start_time, tensor, ev, new_tensor, calls,
                   attempts, result, call, prev, recorded, layout>>

\* handle_ofg_events up to its call of shift_grid, and shift_grid's first
\* statements: the new origin is the midpoint of the origin and the event, and
\* km_per_deg_lon is recomputed for it.
HandleOfgEvents ==
    /\ pc = "ofg"
    /\ shifts < MaxShifts
    /\ new_lat0' = Half(lat0 + ev.lat)
    /\ new_lon0' = Half(lon0 + ev.lon)
    /\ km_per_deg_lon_old' = km_per_deg_lon
    /\ km_per_deg_lon' = KmPerDegLon(new_lat0')
    /\ shifts' = shifts + 1
    /\ pc' = "remap"
    /\ UNCHANGED <<lat0, lon0, start_time, tensor, ev, new_tensor, calls,
                   attempts, result, call, prev, recorded, layout>>

\* shift_grid: the remap of every old cell into new_tensor.
ShiftGridRemap ==
    /\ pc = "remap"
    /\ new_tensor' \in Remapped(tensor, lat0, lon0, km_per_deg_lon_old,
                                new_lat0, new_lon0, km_per_deg_lon)
    /\ pc' = "set_lat0"
    /\ UNCHANGED <<lat0, lon0, start_time, km_per_deg_lon, tensor, ev,
                   km_per_deg_lon_old, new_lat0, new_lon0, calls, shifts,
                   attempts, result, call, prev, recorded, layout>>

\* shift_grid: self.lat0 = new_lat0.
ShiftGridSetLat0 ==
    /\ pc = "set_lat0"
    /\ lat0' = new_lat0
    /\ pc' = "set_lon0"
    /\ UNCHANGED <<lon0, start_time, km_per_deg_lon, tensor, ev,
                   km_per_deg_lon_old, new_lat0, new_lon0, new_tensor, calls,
                   shifts, attempts, result, call, prev, recorded, layout>>

\* shift_grid: self.lon0 = new_lon0.
ShiftGridSetLon0 ==
    /\ pc = "set_lon0"
    /\ lon0' = new_lon0
    /\ pc' = "set_tensor"
    /\ UNCHANGED <<lat0, start_time, km_per_deg_lon, tensor, ev,
                   km_per_deg_lon_old, new_lat0, new_lon0, new_tensor, calls,
                   shifts, attempts, result, call, prev, recorded, layout>>

\* shift_grid: self.tensor = new_tensor, and the return to handle_ofg_events.
ShiftGridSetTensor ==
    /\ pc = "set_tensor"
    /\ tensor' = new_tensor
    /\ layout' = <<new_lat0, new_lon0>>
    /\ new_tensor' = ZeroTensor
    /\ pc' = "retry"
    /\ UNCHANGED <<lat0, lon0, start_time, km_per_deg_lon, ev,
                   km_per_deg_lon_old, new_lat0, new_lon0, calls, shifts,
                   attempts, result, call, prev, recorded>>

\* handle_ofg_events re-attempting once only: an event still outside the grid
\* after the recenter is dropped.
ReAddEventOnce ==
    /\ pc = "retry"
    /\ attempts' = attempts + 1
    /\ IF InGrid(CoordToGrid(ev.lat, ev.lon))
       THEN Insert(ev.lat, ev.lon, ev.ts)
       ELSE /\ pc' = "idle"
            /\ result' = "dropped"
            /\ UNCHANGED <<tensor, recorded>>
    /\ UNCHANGED <<lat0, lon0, start_time, km_per_deg_lon, ev,
                   km_per_deg_lon_old, new_lat0, new_lon0, new_tensor, calls,
                   shifts, call, prev, layout>>

\* handle_ofg_events: self.add_event(lat, lon, timestamp) at the new origin.
ReAddEvent ==
    /\ pc = "retry"
    /\ attempts' = attempts + 1
    /\ Insert(ev.lat, ev.lon, ev.ts)
    /\ UNCHANGED <<lat0, lon0, start_time, km_per_deg_lon, ev,
                   km_per_deg_lon_old, new_lat0, new_lon0, new_tensor, calls,
                   shifts, call, prev, layout>>

\* One statement of the call chain below the caller's add_event.
Step ==
    \/ HandleOfgEvents
    \/ ShiftGridRemap
    \/ ShiftGridSetLat0
    \/ ShiftGridSetLon0
    \/ ShiftGridSetTensor
    \/ ReAddEvent

Next ==
    \/ \E lat \in EventLats, lon \in EventLons, offset \in EventOffsets :
          AddEvent(lat, lon, offset)
    \/ Step

Spec == Init /\ [][Next]_vars

\* A call, once made, runs to its return: nothing suspends it.
FairSpec == Spec /\ WF_vars(Step)


\* ----------------------------------------------------------------- claims
Abs(x) == IF x < 0 THEN 0 - x ELSE x

\* The origin after k recenters towards the coordinate e, starting from o.
RECURSIVE IterMid(_, _, _)
IterMid(o, e, k) == IF k = 0 THEN o ELSE IterMid(Half(o + e), e, k - 1)

\* The last call was made with an event in a frame, outside the grid, and has
\* returned.
OfgCallReturned == pc = "idle" /\ call.ofg

Flag(frame_idx, cell) == tensor[frame_idx][1][cell[1]][cell[2]]

Stamp(frame_idx, cell) == tensor[frame_idx][0][cell[1]][cell[2]]

\* C1: after a call has returned, every event recorded so far whose
\* coordinates project into the grid under the current origin finds the fire
\* flag set at that cell of its frame.
RecenterKeepsRecorded ==
    pc = "idle" =>
        \A e \in recorded :
            InGrid(CoordToGrid(e.lat, e.lon)) =>
                Flag(e.frame, CoordToGrid(e.lat, e.lon)) = 1

\* C2 as stated: a call with an out-of-grid event recenters exactly once and
\* re-attempts the insertion exactly once.
OneRecenterPerCall == OfgCallReturned => shifts = 1 /\ attempts = 2

\* C2 as amended: a call with an out-of-grid event recenters one or more
\* times, re-attempts the insertion once after each recenter, and returns only
\* with the event written; no other call recenters.
RecentersUntilWritten ==
    /\ OfgCallReturned => shifts >= 1 /\ attempts = shifts + 1 /\ result = "written"
    /\ pc = "ofg" => call.ofg /\ attempts = shifts + 1 /\ result = "pending"
    /\ pc \in {"remap", "set_lat0", "set_lon0", "set_tensor", "retry"} =>
            call.ofg /\ attempts = shifts
    /\ pc = "idle" /\ ~call.ofg => shifts = 0 /\ attempts <= 1

SeveralRecenters == OfgCallReturned /\ shifts >= 2 /\ attempts = shifts + 1

\* C3 as stated: when a call with an out-of-grid event returns, the origin is
\* the midpoint of the origin before the call and the event, and the event's
\* cell under it is in the grid and flagged.
OriginIsMidpoint ==
    OfgCallReturned =>
        /\ lat0 = Half(call.lat0 + call.lat)
        /\ lon0 = Half(call.lon0 + call.lon)
        /\ InGrid(CoordToGrid(call.lat, call.lon))
        /\ Flag(GetFrameIndex(call.ts), CoordToGrid(call.lat, call.lon)) = 1

\* C3 as amended: when a call with an out-of-grid event returns, the origin is
\* the k-th successive midpoint between the origin before the call and the
\* event, k >= 1 being the first for which the event's cell is in the grid;
\* that cell is flagged.  From (38.01, 23.96) the event (38.05, 23.96) takes
\* three recenters and leaves the origin at (38.045, 23.96).
OriginIsIteratedMidpoint ==
    OfgCallReturned =>
        /\ shifts >= 1
        /\ lat0 = IterMid(call.lat0, call.lat, shifts)
        /\ lon0 = IterMid(call.lon0, call.lon, shifts)
        /\ \A j \in 1 .. (shifts - 1) :
              ~InGrid(CellAt(IterMid(call.lat0, call.lat, j),
                             IterMid(call.lon0, call.lon, j),
                             KmPerDegLon(IterMid(call.lat0, call.lat, j)),
                             call.lat, call.lon))
        /\ InGrid(CoordToGrid(call.lat, call.lon))
        /\ Flag(GetFrameIndex(call.ts), CoordToGrid(call.lat, call.lon)) = 1
        /\ (/\ call.lat0 = 380100 /\ call.lon0 = 239600
            /\ call.lat = 380500 /\ call.lon = 239600)
                => lat0 = 380450 /\ lon0 = 239600 /\ shifts = 3

ScenarioRecentered ==
    /\ OfgCallReturned
    /\ call.lat0 = 380100 /\ call.lon0 = 239600
    /\ call.lat = 380500 /\ call.lon = 239600
    /\ lat0 = 380450

\* C4: a call whose timestamp is before start_time, or at or after
\* start_time + max_capacity * step_minutes, returns at once and changes
\* nothing of the buffer, whatever its coordinates.
OutOfFrameIsNoOp ==
    [][(/\ calls' = calls + 1
        /\ \/ call'.ts < start_time
           \/ call'.ts >= start_time + MaxCapacity * StepMinutes * 60)
        => /\ tensor' = tensor
           /\ lat0' = lat0
           /\ lon0' = lon0
           /\ km_per_deg_lon' = km_per_deg_lon
           /\ pc' = "idle"
           /\ result' = "dropped"
           /\ shifts' = 0]_vars

OutOfFrameOutOfGridDropped ==
    /\ pc = "idle"
    /\ result = "dropped"
    /\ call.ts = start_time + MaxCapacity * StepMinutes * 60
    /\ ~CoordRaises(call.lat, call.lon)
    /\ ~InGrid(CoordToGrid(call.lat, call.lon))
    /\ tensor # ZeroTensor

\* C5: after two successive calls with the same coordinates and timestamps of
\* one frame, that frame empty before them, the frame has exactly one cell
\* flagged, with the flag 1 and the timestamp of the second call.
OverwriteKeepsSecondTimestamp ==
    (/\ pc = "idle"
     /\ calls >= 2
     /\ prev.lat = call.lat
     /\ prev.lon = call.lon
     /\ ~CoordRaises(call.lat, call.lon)
     /\ FrameInRange(GetFrameIndex(call.ts))
     /\ GetFrameIndex(prev.ts) = GetFrameIndex(call.ts)
     /\ prev.empty)
    => LET f == GetFrameIndex(call.ts)
           cell == CoordToGrid(call.lat, call.lon)
       IN  /\ InGrid(cell)
           /\ {c \in Cells : Flag(f, c) # 0} = {cell}
           /\ Flag(f, cell) = 1
           /\ Stamp(f, cell) = call.ts

\* Timestamps get_frame_index is probed with, as offsets from the ignition
\* time.
ProbeOffsets ==
    {0 - 121, 0 - 120, 0 - 61, 0 - 60, 0 - 59, 0 - 31, 0 - 30, 0 - 1,
     0, 1, 29, 30, 59, 60, 61, 119, 120, 121}

\* C6: in every reachable state start_time is the ignition time, and the
\* frame index of a timestamp t is the integer f with
\* start_time + f * step <= t < start_time + (f + 1) * step; start_time has
\* index 0 and start_time + step has index 1.
FrameIndexIsFloor ==
    /\ start_time = IgnitionPoint[3]
    /\ GetFrameIndex(start_time) = 0
    /\ GetFrameIndex(start_time + StepMinutes * 60) = 1
    /\ \A t \in {IgnitionPoint[3] + o : o \in ProbeOffsets} \cup {ev.ts} :
          /\ start_time + GetFrameIndex(t) * StepMinutes * 60 <= t
          /\ t < start_time + (GetFrameIndex(t) + 1) * StepMinutes * 60

EarlyEventAfterRecenter ==
    /\ pc = "idle"
    /\ layout # <<IgnitionPoint[1], IgnitionPoint[2]>>
    /\ call.ts < start_time
    /\ GetFrameIndex(call.ts) = 0 - 1

\* C7: no call of add_event raises.
NoInputRaises == pc # "raised"

\* C8: km_per_deg_lon is the value for the current origin_lat, and the origin
\* is the one the current tensor is laid out under, in every state a reader
\* can see.
RecenterIsAtomic ==
    /\ km_per_deg_lon = KmPerDegLon(lat0)
    /\ layout = <<lat0, lon0>>

\* C9: the remap of a recenter sends no two old cells to the same cell of the
\* grid.
RemapIsInjective ==
    pc = "remap" =>
        LET img == [s \in Cells |->
                      Remap(lat0, lon0, km_per_deg_lon_old,
                            new_lat0, new_lon0, km_per_deg_lon, s)]
            kept == {s \in Cells : InGrid(img[s])}
        IN  Cardinality({img[s] : s \in kept}) = Cardinality(kept)

\* C10: a call with an out-of-grid event in a frame performs finitely many
\* recenters and then writes the event; every recenter at least halves the
\* event's distance from the origin in each coordinate.
EveryCallReturns ==
    /\ (pc = "ofg") ~> (pc = "idle" /\ result = "written")
    /\ [][pc = "ofg" /\ pc' = "remap" =>
            /\ 2 * Abs(ev.lat - new_lat0') <= Abs(ev.lat - lat0) + 1
            /\ 2 * Abs(ev.lon - new_lon0') <= Abs(ev.lon - lon0) + 1]_vars
    /\ [](shifts < MaxShifts)

WrittenAfterThreeRecenters ==
    /\ pc = "idle"
    /\ result = "written"
    /\ shifts = 3
    /\ recorded # {}

====
